---- MODULE Spec2Model ----
(***************************************************************************)
(* lifestream.py: customer-purchase analytics over pandas tables.          *)
(*                                                                         *)
(* The caller owns two tables: df, the line items handed to                *)
(* create_transaction_log, and transaction_log, the table it returns and   *)
(* which the chart functions then receive (and mutate in place).  What a   *)
(* chart function hands to the plotting layer is recorded in plotted, the  *)
(* exception a call ends with in raised, the call itself in called, and    *)
(* the number of chart calls the log has been through (counted up to       *)
(* MaxCalls) in chart_calls.                                               *)
(*                                                                         *)
(* A pandas table is a record                                              *)
(*   columns     the column labels, in order                               *)
(*   index_name  the name of the index ("" for a RangeIndex)               *)
(*   index       the index values, one per row                             *)
(*   data        the rows, each a function from column label to value      *)
(* A Python string is the sequence of its character codes, so that string  *)
(* comparison (which decides pandas' group order) is the code's.           *)
(***************************************************************************)
EXTENDS Integers, Sequences, FiniteSets, TLC

VARIABLES df, transaction_log, plotted, raised, called, chart_calls

vars == <<df, transaction_log, plotted, raised, called, chart_calls>>

(***************************************************************************)
(* Bounds of the enumerated inputs.                                        *)
(***************************************************************************)
\* line items per table, when every field of a line item varies
MaxItems == 2
\* line items per table, when only customer and date vary
MaxRows == 3
MaxOrder == 2
MaxCustomer == 2
\* distinct purchase dates, one per consecutive calendar month
MaxTime == 3
\* textual spellings of one date in a non-datetime date column
MaxSpelling == 2
MaxQuantity == 2
MaxPrice == 2
\* chart calls on one log are counted up to this number (and go on after it)
MaxCalls == 2

\* The month of the first enumerated purchase date (November 2010, so that
\* the dates cross a year boundary).
FirstDate == [year |-> 2010, month |-> 11]

(***************************************************************************)
(* Values                                                                  *)
(***************************************************************************)
\* A missing value (numpy.nan) in a key column.
NaN == -1

\* The columns of the line-item table and of the transaction log.
orderid_col == "InvoiceNo"
datetime_col == "InvoiceDate"
customerid_col == "CustomerID"
quantity_col == "Quantity"
unitprice_col == "UnitPrice"
ordervalue_col == "OrderValue"

\* The i-th enumerated purchase date: a datetime, here [year, month, day].
Stamp(i) ==
    LET m == (FirstDate.month - 1) + i
    IN  [year |-> FirstDate.year + (m \div 12), month |-> (m % 12) + 1, day |-> 1 + i]

Stamps == {Stamp(i) : i \in 0 .. MaxTime - 1}

\* Character codes: '0'..'9' are 48..57, '-' is 45.
Chr(d) == 48 + d

\* n in decimal, zero padded to width characters.
ZeroPadded(n, width) ==
    [i \in 1 .. width |-> Chr((n \div (10 ^ (width - i))) % 10)]

\* A mis-ordered format, '%m-%Y'.
strftime_month_first(x) ==
    ZeroPadded(x.month, 2) \o <<45>> \o ZeroPadded(x.year, 4)

\* x.strftime('%Y-%m')
strftime(x) ==
    ZeroPadded(x.year, 4) \o <<45>> \o ZeroPadded(x.month, 2)

\* Python's < on strings and on tuples of integers: lexicographic.
LexLess(a, b) ==
    \/ /\ Len(a) < Len(b)
       /\ \A i \in 1 .. Len(a) : a[i] = b[i]
    \/ \E i \in 1 .. Len(a) :
          /\ i <= Len(b)
          /\ a[i] < b[i]
          /\ \A j \in 1 .. i - 1 : a[j] = b[j]

\* Group keys sorted the wrong way round.
RECURSIVE SortedDescending(_)
SortedDescending(S) ==
    IF S = {} THEN <<>>
    ELSE LET m == CHOOSE x \in S : \A y \in S \ {x} : LexLess(y, x)
         IN  <<m>> \o SortedDescending(S \ {m})

\* The sort pandas' groupby(sort=True) gives its group keys.
RECURSIVE SortedSeq(_)
SortedSeq(S) ==
    IF S = {} THEN <<>>
    ELSE LET m == CHOOSE x \in S : \A y \in S \ {x} : LexLess(x, y)
         IN  <<m>> \o SortedSeq(S \ {m})

RECURSIVE SumSeq(_)
SumSeq(s) == IF s = <<>> THEN 0 ELSE Head(s) + SumSeq(Tail(s))

\* The subsequence of s at the positions in P, in order.
RECURSIVE Pick(_, _, _)
Pick(s, P, i) ==
    IF i > Len(s) THEN <<>>
    ELSE (IF i \in P THEN <<s[i]>> ELSE <<>>) \o Pick(s, P, i + 1)

\* A datetime as a tuple, for comparison.
StampKey(x) == <<x.year, x.month, x.day>>

\* Series.min() over datetimes.
MinStamp(S) == CHOOSE x \in S : \A y \in S \ {x} : LexLess(StampKey(x), StampKey(y))

(***************************************************************************)
(* Tables                                                                  *)
(***************************************************************************)
NoTable == [columns |-> <<>>, index_name |-> "", index |-> <<>>, data |-> <<>>]

NRows(t) == Len(t.data)

HasColumn(t, c) == \E i \in 1 .. Len(t.columns) : t.columns[i] = c

Column(t, c) == [i \in 1 .. NRows(t) |-> t.data[i][c]]

\* t[c] = values: a new column goes last, an existing one is overwritten
\* in place.
AssignColumn(t, c, values) ==
    [t EXCEPT
       !.columns = IF HasColumn(t, c) THEN @ ELSE Append(@, c),
       !.data = [i \in 1 .. NRows(t) |-> (c :> values[i]) @@ t.data[i]]]

\* t.set_index(c, inplace=True) followed by t.sort_index(inplace=True): the
\* rows end up in the order of the index values.
set_index_sorted(t, c) ==
    LET order == SortedSeq({<<t.data[i][c], i>> : i \in 1 .. NRows(t)})
    IN  [columns |-> SelectSeq(t.columns, LAMBDA k : k # c),
         index_name |-> c,
         index |-> [i \in 1 .. NRows(t) |-> order[i][1]],
         data |-> [i \in 1 .. NRows(t) |->
                     [k \in (DOMAIN t.data[order[i][2]]) \ {c} |-> t.data[order[i][2]][k]]]]

\* t.set_index(c, inplace=True): the column becomes the index.
set_index(t, c) ==
    [columns |-> SelectSeq(t.columns, LAMBDA k : k # c),
     index_name |-> c,
     index |-> Column(t, c),
     data |-> [i \in 1 .. NRows(t) |->
                 [k \in (DOMAIN t.data[i]) \ {c} |-> t.data[i][k]]]]

\* t.reset_index(inplace=True): the index goes back in as the first column
\* and a RangeIndex replaces it.
reset_index(t) ==
    [columns |-> <<t.index_name>> \o t.columns,
     index_name |-> "",
     index |-> [i \in 1 .. NRows(t) |-> i - 1],
     data |-> [i \in 1 .. NRows(t) |-> (t.index_name :> t.index[i]) @@ t.data[i]]]

(***************************************************************************)
(* create_transaction_log                                                  *)
(***************************************************************************)
\* A value of a date column that is not datetime yet: the date and the way
\* it is spelled.  astype('datetime64[ns]') parses it.
astype_datetime64(v) == v.stamp

\* The group key of a line item, as a tuple that sorts as pandas sorts it.
GroupKey(r) ==
    <<r[orderid_col], r[datetime_col].stamp.year, r[datetime_col].stamp.month,
      r[datetime_col].stamp.day, r[datetime_col].spelling, r[customerid_col]>>

\* groupby(...) drops the rows with a missing key (dropna).
GroupedRows(d) == {i \in 1 .. NRows(d) : d.data[i][customerid_col] # NaN}

\* Returns the caller's table as the call leaves it, and the table returned.
create_transaction_log(d) ==
    LET withValue == AssignColumn(d, ordervalue_col,
                        [i \in 1 .. NRows(d) |->
                            d.data[i][quantity_col] * d.data[i][unitprice_col]])
        kept == GroupedRows(withValue)
        keys == SortedSeq({GroupKey(withValue.data[i]) : i \in kept})
        members(k) == {i \in kept : GroupKey(withValue.data[i]) = k}
        one(k) == withValue.data[CHOOSE i \in members(k) : TRUE]
        agg == [j \in 1 .. Len(keys) |->
                  (orderid_col :> one(keys[j])[orderid_col])
                  @@ (datetime_col :> astype_datetime64(one(keys[j])[datetime_col]))
                  @@ (customerid_col :> one(keys[j])[customerid_col])
                  @@ (ordervalue_col :>
                        SumSeq(Pick(Column(withValue, ordervalue_col), members(keys[j]), 1)))]
    IN  [df |-> withValue,
         result |-> [columns |-> <<orderid_col, datetime_col, customerid_col, ordervalue_col>>,
                     index_name |-> "",
                     index |-> [j \in 1 .. Len(keys) |-> j - 1],
                     data |-> agg]]

(***************************************************************************)
(* The cohort columns (cohort_retention_chart and new_customers_chart      *)
(* start with the same four statements)                                    *)
(***************************************************************************)
Rows(t) == 1 .. NRows(t)

\* groupby(level=0)[datetime_col].first(): the date of each customer's first
\* row.
first_purchase_first_row(t) ==
    [c \in {t.index[i] : i \in Rows(t)} \ {NaN} |->
        t.data[CHOOSE i \in Rows(t) :
                  /\ t.index[i] = c
                  /\ \A j \in 1 .. i - 1 : t.index[j] # c][datetime_col]]

\* groupby(level=0)[datetime_col].min(): per customer in the index, the
\* earliest date of the customer's rows.
first_purchase(t) ==
    [c \in {t.index[i] : i \in Rows(t)} \ {NaN} |->
        MinStamp({t.data[i][datetime_col] : i \in {k \in Rows(t) : t.index[k] = c}})]

\* The table after the four statements: OrderPeriod and CohortGroup are
\* (re)assigned, the customer column goes through the index and comes back
\* as the first column.  (A log of create_transaction_log has no missing
\* customer, so every row finds its customer in first_purchase.)
with_cohorts(t) ==
    LET t1 == AssignColumn(t, "OrderPeriod",
                 [i \in Rows(t) |-> strftime(t.data[i][datetime_col])])
        t2 == set_index(t1, customerid_col)
        first == first_purchase(t2)
        t3 == AssignColumn(t2, "CohortGroup",
                 [i \in Rows(t2) |-> strftime(first[t2.index[i]])])
    IN  reset_index(t3)

(***************************************************************************)
(* cohort_retention_chart                                                  *)
(***************************************************************************)
\* What a chart hands to the plotting layer: a labelled table.
NoPlot == [kind |-> "none", index |-> <<>>, columns |-> <<>>, cells |-> <<>>]

\* The key of groupby(['CohortGroup', 'OrderPeriod']), as one sequence that
\* sorts as the pair of strings does (0 is below every character).
CohortKey(r) == r["CohortGroup"] \o <<0>> \o r["OrderPeriod"]

\* .agg(len) in place of pd.Series.nunique: the rows, not the customers.
count_rows(t, members) == Cardinality(members)

\* pd.Series.nunique over the customer column of the rows in members.
nunique(t, members) ==
    Cardinality({t.data[i][customerid_col] : i \in members} \ {NaN})

\* grouped.agg({customerid_col: nunique, ordervalue_col: np.sum}), renamed:
\* one row per (CohortGroup, OrderPeriod), in sorted key order.
cohorts_by_period(t) ==
    LET keys == SortedSeq({CohortKey(t.data[i]) : i \in Rows(t)})
        members(k) == {i \in Rows(t) : CohortKey(t.data[i]) = k}
        one(k) == t.data[CHOOSE i \in members(k) : TRUE]
    IN  [j \in 1 .. Len(keys) |->
           [CohortGroup |-> one(keys[j])["CohortGroup"],
            OrderPeriod |-> one(keys[j])["OrderPeriod"],
            TotalUsers |-> nunique(t, members(keys[j])),
            OrderValue |-> SumSeq(Pick(Column(t, ordervalue_col), members(keys[j]), 1))]]

\* cohorts.groupby(level=0).apply(cohort_period): within each CohortGroup the
\* rows are numbered 1, 2, ... in their order.
cohort_period(cohorts) ==
    [j \in 1 .. Len(cohorts) |->
        Cardinality({k \in 1 .. j : cohorts[k].CohortGroup = cohorts[j].CohortGroup})]

\* .groupby(level=0).last(): the TotalUsers of each cohort's last row.
cohort_group_size_last(cohorts) ==
    [c \in {cohorts[j].CohortGroup : j \in 1 .. Len(cohorts)} |->
        cohorts[CHOOSE j \in 1 .. Len(cohorts) :
                   /\ cohorts[j].CohortGroup = c
                   /\ \A k \in j + 1 .. Len(cohorts) : cohorts[k].CohortGroup # c].TotalUsers]

\* cohorts['TotalUsers'].groupby(level=0).first(): the TotalUsers of each
\* cohort's first row.
cohort_group_size(cohorts) ==
    [c \in {cohorts[j].CohortGroup : j \in 1 .. Len(cohorts)} |->
        cohorts[CHOOSE j \in 1 .. Len(cohorts) :
                   /\ cohorts[j].CohortGroup = c
                   /\ \A k \in 1 .. j - 1 : cohorts[k].CohortGroup # c].TotalUsers]

\* A float quotient is kept as <<numerator, denominator>>; NaN is <<0, 0>>.
NaNCell == <<0, 0>>

\* cohorts['TotalUsers'].unstack(0).divide(cohort_group_size, axis=1):
\* rows are the CohortPeriods, columns the CohortGroups, both sorted; a cell
\* with no row in cohorts is NaN.
user_retention(cohorts) ==
    LET period == cohort_period(cohorts)
        size == cohort_group_size(cohorts)
        J == 1 .. Len(cohorts)
        periods == SortedSeq({<<period[j]>> : j \in J})
        groups == SortedSeq({cohorts[j].CohortGroup : j \in J})
        cell(p, c) ==
            IF \E j \in J : cohorts[j].CohortGroup = c /\ period[j] = p
            THEN <<cohorts[CHOOSE j \in J :
                              cohorts[j].CohortGroup = c /\ period[j] = p].TotalUsers,
                   size[c]>>
            ELSE NaNCell
    IN  [kind |-> "retention",
         index |-> [a \in 1 .. Len(periods) |-> periods[a][1]],
         columns |-> groups,
         cells |-> [a \in 1 .. Len(periods) |->
                      [b \in 1 .. Len(groups) |-> cell(periods[a][1], groups[b])]]]

ColumnPos(m, c) == CHOOSE b \in 1 .. Len(m.columns) : m.columns[b] = c

\* m.reindex(columns=[cohort1, cohort2, cohort3]).plot(...): a label that is
\* no column gives a column of NaN, and nothing is raised.
select_and_plot_reindex(m, wanted) ==
    [raised |-> "None",
     plotted |-> [m EXCEPT
        !.columns = wanted,
        !.cells = [a \in 1 .. Len(m.index) |->
                     [b \in 1 .. Len(wanted) |->
                        IF \E k \in 1 .. Len(m.columns) : m.columns[k] = wanted[b]
                        THEN m.cells[a][ColumnPos(m, wanted[b])]
                        ELSE NaNCell]]]]

\* m[[cohort1, cohort2, cohort3]].plot(...): a label that is no column raises
\* KeyError before anything is plotted (list indexing in pandas 1.0 and
\* later; the matrix of an empty log has no column at all).
select_and_plot(m, wanted) ==
    IF \A a \in 1 .. Len(wanted) : \E b \in 1 .. Len(m.columns) : m.columns[b] = wanted[a]
    THEN [raised |-> "None",
          plotted |-> [m EXCEPT
             !.columns = wanted,
             !.cells = [a \in 1 .. Len(m.index) |->
                          [b \in 1 .. Len(wanted) |-> m.cells[a][ColumnPos(m, wanted[b])]]]]]
    ELSE [raised |-> "KeyError", plotted |-> NoPlot]

cohort_retention_chart(t, cohort1, cohort2, cohort3) ==
    LET t4 == with_cohorts(t)
        r == select_and_plot(user_retention(cohorts_by_period(t4)),
                             <<cohort1, cohort2, cohort3>>)
    IN  [table |-> t4, raised |-> r.raised, plotted |-> r.plotted]

(***************************************************************************)
(* new_customers_chart                                                     *)
(***************************************************************************)
\* groupby(['CohortGroup']).agg({customerid_col: nunique}), then the same
\* cohort_period / set_index / first() as above, on one row per cohort.
new_customers_chart(t) ==
    LET t4 == with_cohorts(t)
        groups == SortedSeq({t4.data[i]["CohortGroup"] : i \in Rows(t4)})
        cohorts == [j \in 1 .. Len(groups) |->
                      [CohortGroup |-> groups[j],
                       TotalUsers |-> nunique(t4,
                           {i \in Rows(t4) : t4.data[i]["CohortGroup"] = groups[j]})]]
        size == cohort_group_size(cohorts)
    IN  [table |-> t4,
         raised |-> "None",
         plotted |-> [kind |-> "new_customers",
                      index |-> groups,
                      columns |-> <<>>,
                      cells |-> [j \in 1 .. Len(groups) |-> <<size[groups[j]]>>]]]

(***************************************************************************)
(* sales_chart                                                             *)
(***************************************************************************)
\* pd.to_datetime of a value that is a datetime already.
to_datetime(x) == x

\* '%b': the month's abbreviated name, as character codes.
MonthAbbr ==
    << <<74, 97, 110>>, <<70, 101, 98>>, <<77, 97, 114>>, <<65, 112, 114>>,
       <<77, 97, 121>>, <<74, 117, 110>>, <<74, 117, 108>>, <<65, 117, 103>>,
       <<83, 101, 112>>, <<79, 99, 116>>, <<78, 111, 118>>, <<68, 101, 99>> >>

\* The months since year 0 of a date: the bin pd.Grouper(freq="M") puts it in.
MonthBin(x) == x.year * 12 + (x.month - 1)

\* bars.strftime("%b-%Y") of a bin.
BinLabel(b) == MonthAbbr[(b % 12) + 1] \o <<45>> \o ZeroPadded(b \div 12, 4)

\* The caller's table after line 88, and the bars plotted: one per month
\* from the first to the last month with an order, empty months included.
sales_chart(t) ==
    LET t1 == AssignColumn(t, datetime_col,
                 [i \in Rows(t) |-> to_datetime(t.data[i][datetime_col])])
        bins == {MonthBin(t1.data[i][datetime_col]) : i \in Rows(t1)}
        lo == CHOOSE b \in bins : \A o \in bins : b <= o
        hi == CHOOSE b \in bins : \A o \in bins : b >= o
        n == IF bins = {} THEN 0 ELSE hi - lo + 1
        height(b) == SumSeq(Pick(Column(t1, ordervalue_col),
                        {i \in Rows(t1) : MonthBin(t1.data[i][datetime_col]) = b}, 1))
    IN  [table |-> t1,
         raised |-> "None",
         plotted |-> [kind |-> "sales",
                      index |-> [k \in 1 .. n |-> BinLabel(lo + k - 1)],
                      columns |-> <<>>,
                      cells |-> [k \in 1 .. n |-> <<height(lo + k - 1)>>]]]

(***************************************************************************)
(* Initial states: the tables a caller supplies                            *)
(***************************************************************************)
SeqsUpTo(S, n) == UNION {[1 .. k -> S] : k \in 0 .. n}

LineItemColumns == <<orderid_col, datetime_col, customerid_col, quantity_col, unitprice_col>>

LineItem(o, s, f, c, q, p) ==
    (orderid_col :> o) @@ (datetime_col :> [stamp |-> s, spelling |-> f])
    @@ (customerid_col :> c) @@ (quantity_col :> q) @@ (unitprice_col :> p)

LineItems ==
    {LineItem(o, s, f, c, q, p) :
        o \in 1 .. MaxOrder, s \in Stamps, f \in 0 .. MaxSpelling - 1,
        c \in {NaN} \cup (1 .. MaxCustomer), q \in 1 .. MaxQuantity, p \in 1 .. MaxPrice}

Frame(cols, rows) ==
    [columns |-> cols, index_name |-> "",
     index |-> [i \in 1 .. Len(rows) |-> i - 1], data |-> rows]

InitCommon ==
    /\ transaction_log = NoTable
    /\ plotted = NoPlot
    /\ raised = "None"
    /\ called = [fn |-> "none", args |-> <<>>]
    /\ chart_calls = 0

\* Any line items, in a table that may already have an OrderValue column.
InitLineItems ==
    /\ \E rows \in SeqsUpTo(LineItems, MaxItems) :
         \/ df = Frame(LineItemColumns, rows)
         \/ df = AssignColumn(Frame(LineItemColumns, rows), ordervalue_col,
                              [i \in 1 .. Len(rows) |-> 0])
    /\ InitCommon

\* One line item per order, numbered as they come, of any customer at any
\* of the dates, in a datetime date column.
Orders ==
    {[customer |-> c, stamp |-> s] : c \in 1 .. MaxCustomer, s \in Stamps}

Init ==
    /\ \E orders \in SeqsUpTo(Orders, MaxRows) :
         df = Frame(LineItemColumns,
                    [i \in 1 .. Len(orders) |->
                        LineItem(i, orders[i].stamp, 0, orders[i].customer, 1, 1)])
    /\ InitCommon

(***************************************************************************)
(* Actions                                                                 *)
(***************************************************************************)
CreateTransactionLog ==
    LET r == create_transaction_log(df)
    IN  /\ df' = r.df
        /\ transaction_log' = r.result
        /\ plotted' = NoPlot
        /\ raised' = "None"
        /\ called' = [fn |-> "create_transaction_log", args |-> <<>>]
        /\ chart_calls' = 0

\* The labels a caller may ask cohort_retention_chart for: the months of the
\* enumerated dates.
CohortLabels == {strftime(x) : x \in Stamps}

\* The chart functions are called on the table create_transaction_log
\* returned.
HasLog == transaction_log.columns # <<>>

Finish(r, fn, args) ==
    /\ transaction_log' = r.table
    /\ plotted' = r.plotted
    /\ raised' = r.raised
    /\ called' = [fn |-> fn, args |-> args]
    /\ chart_calls' = IF chart_calls < MaxCalls THEN chart_calls + 1 ELSE chart_calls
    /\ UNCHANGED df

\* One call of cohort_retention_chart (the table and the matrix do not
\* depend on the cohorts asked for, so they are computed once).
CohortRetentionChart ==
    /\ HasLog
    /\ \E t4 \in {with_cohorts(transaction_log)} :
       \E m \in {user_retention(cohorts_by_period(t4))} :
       \E cohort1 \in CohortLabels, cohort2 \in CohortLabels, cohort3 \in CohortLabels :
          LET r == select_and_plot(m, <<cohort1, cohort2, cohort3>>)
          IN  Finish([table |-> t4, raised |-> r.raised, plotted |-> r.plotted],
                     "cohort_retention_chart", <<cohort1, cohort2, cohort3>>)

NewCustomersChart ==
    /\ HasLog
    /\ Finish(new_customers_chart(transaction_log), "new_customers_chart", <<>>)

SalesChart ==
    /\ HasLog
    /\ Finish(sales_chart(transaction_log), "sales_chart", <<>>)

Next ==
    \/ CreateTransactionLog
    \/ CohortRetentionChart
    \/ NewCustomersChart
    \/ SalesChart

\* The whole program, on orders of one line item each.
Spec == Init /\ [][Next]_vars

\* create_transaction_log alone, on any line items.
SpecLineItems == InitLineItems /\ [][CreateTransactionLog]_vars

(***************************************************************************)
(* Properties                                                              *)
(***************************************************************************)
Created == called.fn = "create_transaction_log"
RetentionCalled == called.fn = "cohort_retention_chart"
NewCustomersCalled == called.fn = "new_customers_chart"
CohortsAssigned == RetentionCalled \/ NewCustomersCalled

LogColumns == <<orderid_col, datetime_col, customerid_col, ordervalue_col>>

\* The transactions of a log: its rows, read at the four columns
\* create_transaction_log gave it.
Transactions(t) ==
    [i \in Rows(t) |->
        [k \in {orderid_col, datetime_col, customerid_col, ordervalue_col} |-> t.data[i][k]]]

CustomerAt(t, i) == t.data[i][customerid_col]
DateAt(t, i) == t.data[i][datetime_col]
CustomersOf(t) == {CustomerAt(t, i) : i \in Rows(t)}

\* The year-month of the earliest of all the customer's transactions.
FirstMonth(t, c) ==
    LET mine == {i \in Rows(t) : CustomerAt(t, i) = c}
        e == CHOOSE i \in mine :
                \A j \in mine : ~LexLess(StampKey(DateAt(t, j)), StampKey(DateAt(t, i)))
    IN  strftime(DateAt(t, e))

\* The customers whose first purchase falls in the month labelled g.
Members(t, g) == {c \in CustomersOf(t) : FirstMonth(t, c) = g}

\* The calendar months in which the cohort labelled g has a transaction.
ActiveMonths(t, g) ==
    {MonthBin(DateAt(t, i)) : i \in {k \in Rows(t) : CustomerAt(t, k) \in Members(t, g)}}

\* C1: the OrderValue of the returned transactions sums to the sum of
\* quantity x unit price over all the line items handed in: no line item is
\* dropped or counted twice.
AggregationKeepsTotal ==
    Created =>
        SumSeq(Column(transaction_log, ordervalue_col))
          = SumSeq([i \in Rows(df) |->
                       df.data[i][quantity_col] * df.data[i][unitprice_col]])

TripleOf(t, i) == <<t.data[i][orderid_col], DateAt(t, i), CustomerAt(t, i)>>

InputTriple(i) ==
    <<df.data[i][orderid_col], astype_datetime64(df.data[i][datetime_col]),
      df.data[i][customerid_col]>>

\* C2: the returned log has exactly one row per (order, timestamp, customer)
\* triple of the line items: no two of its rows share a triple, every triple
\* of the input is the triple of one of its rows, and it has no other rows.
OneRowPerTriple ==
    Created =>
        /\ \A i, j \in Rows(transaction_log) :
              TripleOf(transaction_log, i) = TripleOf(transaction_log, j) => i = j
        /\ \A i \in Rows(df) : \E j \in Rows(transaction_log) :
              TripleOf(transaction_log, j) = InputTriple(i)
        /\ \A j \in Rows(transaction_log) : \E i \in Rows(df) :
              TripleOf(transaction_log, j) = InputTriple(i)

\* The rows of t in the order p.
Permuted(t, p) ==
    [t EXCEPT !.data = [i \in Rows(t) |-> t.data[p[i]]],
              !.index = [i \in Rows(t) |-> i - 1]]

\* C3: after the cohort assignment every row carries as CohortGroup the
\* year-month of the earliest transaction of its customer (one CohortGroup
\* per customer, not the row's own month), and the assignment gives every
\* customer that same CohortGroup on every permutation of the rows.
CohortIsFirstPurchaseMonth ==
    CohortsAssigned =>
        /\ \A i \in Rows(transaction_log) :
              transaction_log.data[i]["CohortGroup"]
                 = FirstMonth(transaction_log, CustomerAt(transaction_log, i))
        /\ \A p \in Permutations(Rows(transaction_log)) :
              LET shuffled == Permuted(Frame(LogColumns, Transactions(transaction_log)), p)
                  tp == with_cohorts(shuffled)
              IN  \A i \in Rows(tp) :
                     tp.data[i]["CohortGroup"]
                        = FirstMonth(transaction_log, CustomerAt(tp, i))

\* C3 happens: a customer's later purchase comes before the earlier one in
\* the table, so a row carries a CohortGroup that is not its own month.
CohortOfLaterRowFirst ==
    /\ CohortsAssigned
    /\ \E i, j \in Rows(transaction_log) :
          /\ i < j
          /\ CustomerAt(transaction_log, i) = CustomerAt(transaction_log, j)
          /\ LexLess(StampKey(DateAt(transaction_log, j)), StampKey(DateAt(transaction_log, i)))
          /\ transaction_log.data[i]["CohortGroup"] # transaction_log.data[i]["OrderPeriod"]

\* The calendar month of a row of cohorts, read back from the transactions.
MonthOfPeriod(t, g, op) ==
    MonthBin(DateAt(t, CHOOSE i \in Rows(t) :
                          /\ t.data[i]["CohortGroup"] = g
                          /\ t.data[i]["OrderPeriod"] = op))

RetentionWithinUnit ==
    (RetentionCalled /\ raised = "None") =>
        /\ plotted.kind = "retention"
        /\ Len(plotted.index) >= 1
        /\ plotted.index[1] = 1
        /\ \A a \in 1 .. Len(plotted.index), b \in 1 .. Len(plotted.columns) :
              LET v == plotted.cells[a][b]
              IN  \/ v = NaNCell
                  \/ v[2] > 0 /\ 0 <= v[1] /\ v[1] <= v[2]
        /\ \A b \in 1 .. Len(plotted.columns) :
              /\ plotted.cells[1][b][2] > 0
              /\ plotted.cells[1][b][1] = plotted.cells[1][b][2]

\* C5 happens: a cohort of two keeps one purchaser in its second period.
HalfRetained ==
    /\ RetentionCalled
    /\ raised = "None"
    /\ \E a \in 1 .. Len(plotted.index), b \in 1 .. Len(plotted.columns) :
          plotted.cells[a][b] = <<1, 2>>

\* C6: the count plotted for a month is the number of distinct customers
\* whose first purchase falls in it; every customer's month is plotted, so
\* the counts sum to the number of distinct customers of the log.
NewCustomersCounted ==
    NewCustomersCalled =>
        LET t == transaction_log
            n == Len(plotted.index)
        IN  /\ plotted.kind = "new_customers"
            /\ \A j \in 1 .. n :
                  plotted.cells[j][1] = Cardinality(Members(t, plotted.index[j]))
            /\ \A j, k \in 1 .. n : plotted.index[j] = plotted.index[k] => j = k
            /\ \A c \in CustomersOf(t) : \E j \in 1 .. n : plotted.index[j] = FirstMonth(t, c)
            /\ SumSeq([j \in 1 .. n |-> plotted.cells[j][1]]) = Cardinality(CustomersOf(t))

\* C6 happens: two months with a new customer each, one of them with a
\* second order.
TwoCohortsCounted ==
    /\ NewCustomersCalled
    /\ Len(plotted.index) = 2
    /\ NRows(transaction_log) = 3
    /\ Cardinality(CustomersOf(transaction_log)) = 2

\* The cohorts present in the data.
PresentCohorts(t) == {FirstMonth(t, c) : c \in CustomersOf(t)}

\* C7: a call of cohort_retention_chart with a cohort that is not in the
\* data ends in KeyError with nothing handed to the plot; a call whose
\* three cohorts are all in the data raises nothing and plots their table.
MissingCohortRaises ==
    RetentionCalled =>
        IF \E a \in 1 .. 3 : called.args[a] \notin PresentCohorts(transaction_log)
        THEN raised = "KeyError" /\ plotted = NoPlot
        ELSE raised = "None" /\ plotted.kind = "retention" /\ plotted.columns = called.args

\* C7 happens: exactly the third cohort asked for is not in the data.
OneCohortMissing ==
    /\ RetentionCalled
    /\ raised = "KeyError"
    /\ called.args[1] \in PresentCohorts(transaction_log)
    /\ called.args[2] \in PresentCohorts(transaction_log)
    /\ called.args[1] # called.args[2]
    /\ called.args[3] \notin PresentCohorts(transaction_log)

\* C8: create_transaction_log leaves the caller's line-item table as it
\* was: the same columns, the same values.
InputUntouched == [][Created' => df' = df]_vars

\* C9: whatever chart calls the log has been through, its transactions are
\* those create_transaction_log returned, and what the last call assigned
\* and plotted is what the same call gives on that returned log.
RecomputedFromTransactions ==
    HasLog =>
        LET original == create_transaction_log(df).result
            t == transaction_log
        IN  /\ \A a \in 1 .. Len(LogColumns) : HasColumn(t, LogColumns[a])
            /\ Transactions(t) = Transactions(original)
            /\ RetentionCalled =>
                  LET r == cohort_retention_chart(original, called.args[1],
                                                  called.args[2], called.args[3])
                  IN  /\ plotted = r.plotted
                      /\ raised = r.raised
                      /\ Column(t, "CohortGroup") = Column(r.table, "CohortGroup")
            /\ NewCustomersCalled =>
                  LET r == new_customers_chart(original)
                  IN  /\ plotted = r.plotted
                      /\ Column(t, "CohortGroup") = Column(r.table, "CohortGroup")

\* C9 happens: a chart is plotted from a log that an earlier chart call
\* has already mutated, with the second customer's rows before the first's.
SecondCallOnMutatedLog ==
    /\ CohortsAssigned
    /\ chart_calls >= 2
    /\ NRows(transaction_log) >= 2
    /\ CustomerAt(transaction_log, 1) > CustomerAt(transaction_log, 2)

\* C10: the denominator of a plotted cohort (its TotalUsers at CohortPeriod
\* 1) is the count new_customers_chart plots for that cohort; the period 1
\* of every cohort is the cohort's own month, with every member purchasing.
CohortSizeIsNewCustomers ==
    RetentionCalled =>
        LET t == transaction_log
            counts == new_customers_chart(Frame(LogColumns, Transactions(t))).plotted
            cohorts == cohorts_by_period(t)
            period == cohort_period(cohorts)
        IN  /\ \A j \in 1 .. Len(cohorts) :
                  period[j] = 1 =>
                     /\ cohorts[j].OrderPeriod = cohorts[j].CohortGroup
                     /\ cohorts[j].TotalUsers
                           = Cardinality(Members(t, cohorts[j].CohortGroup))
            /\ raised = "None" =>
                  \A b \in 1 .. Len(plotted.columns) :
                     \E j \in 1 .. Len(counts.index) :
                        /\ counts.index[j] = plotted.columns[b]
                        /\ plotted.cells[1][b][2] = counts.cells[j][1]

\* C10 happens: a plotted cohort of two whose second period has one
\* purchaser.
CohortOfTwoPlotted ==
    /\ RetentionCalled
    /\ raised = "None"
    /\ \E b \in 1 .. Len(plotted.columns) :
          /\ plotted.cells[1][b] = <<2, 2>>
          /\ Len(plotted.index) >= 2
          /\ plotted.cells[2][b][1] = 1

====
